---- MODULE Spec2Model ----
(***************************************************************************)
(* Model of nvtabular/worker.py: the per-worker cache dictionary           *)
(* (get_worker_cache / _get_worker_cache / clean_worker_cache), the        *)
(* module-level fallback dictionary _WORKER_CACHE and the module-level     *)
(* reentrant lock _WORKER_CACHE_LOCK.                                      *)
(*                                                                         *)
(* One Python process is modelled.  Its threads call the two public        *)
(* functions; dask's get_worker() tells each thread which worker it runs   *)
(* for, or raises ValueError (no worker: the fallback dictionary is used). *)
(* Every dictionary `{}` that becomes a named cache is an object with an   *)
(* identity (a number) and contents (heap).                                *)
(*                                                                         *)
(* Spec is the program.  SpecHist and SpecExit are the program with a      *)
(* history variable each (the names acquired; the `with` block last left), *)
(* SpecFair is the program with running threads, a fair lock and callers'  *)
(* blocks that terminate.                                                  *)
(***************************************************************************)
EXTENDS Integers, Sequences, FiniteSets, TLC

\* ---------------------------------------------------------------- bounds
\* Number of named-cache dictionaries alive at one time.
MaxInst == 2
\* Nesting depth of `with get_worker_cache(..)` blocks in one thread.
MaxDepth == 2

\* ------------------------------------------------------------ input sets
Threads == {"t1", "t2"}
Workers == {"w1", "w2"}
\* get_worker() raised ValueError: the thread is no distributed worker thread.
NoWorker == "ValueError"
Contexts == Workers \cup {NoWorker}
\* Cache names the callers acquire: non-empty identifier strings.
Names == {"a", "b"}
\* Python's None (clean_worker_cache's default for an omitted name).
None == "None"
\* What callers pass to clean_worker_cache: a name, the empty string, or
\* nothing.
Args == Names \cup {"", None}
\* Keys and values the callers put into a named cache.
Keys == {"k"}
Vals == {"v1"}

\* Where the threads run: both outside dask, one outside and one in a worker,
\* both in one worker, or in two workers.
Placements ==
    { [t \in Threads |-> IF t = "t1" THEN p[1] ELSE p[2]] :
        p \in { <<NoWorker, NoWorker>>, <<NoWorker, "w1">>,
                <<"w1", "w1">>, <<"w1", "w2">> } }

NoOwner == "NoOwner"
InstIds == 1..MaxInst

VARIABLES
    worker_of,           \* thread -> the worker get_worker() returns, or NoWorker
    _WORKER_CACHE,       \* the module global: name -> identity of a dict
    attrs,               \* the workers that have the attribute "worker_cache"
    worker_cache,        \* worker -> its attribute worker_cache: name -> identity
    heap,                \* identity of a named-cache dict -> its contents
    _WORKER_CACHE_LOCK,  \* the RLock: [owner, count]
    call,                \* thread -> the library call it is executing, if any
    stack,               \* thread -> its open `with get_worker_cache` blocks
    acquired,            \* history: context -> the names n it has acquired
                         \* with get_worker_cache(n) and since then released
                         \* neither with clean_worker_cache(n) nor with
                         \* clean_worker_cache()
    left                 \* history: the `with _WORKER_CACHE_LOCK` block the
                         \* last step left, if it left one: whose, of which
                         \* function, and how (return or exception)

vars == <<worker_of, _WORKER_CACHE, attrs, worker_cache, heap,
          _WORKER_CACHE_LOCK, call, stack, acquired, left>>

\* ------------------------------------------------------- Python helpers
\* The dict literal {}.
EmptyDict == [x \in {} |-> 0]

\* d[k] = v
DictSet(d, k, v) == [x \in DOMAIN d \cup {k} |-> IF x = k THEN v ELSE d[x]]

\* del d[k]  (k is in d)
DictDel(d, k) == [x \in DOMAIN d \ {k} |-> d[x]]

\* bool(name) for a str or None: None and "" are falsy.
Truthy(name) == name # None /\ name # ""

\* Mutant: the worker lookup always fails, every thread falls back to the
\* module global.
get_worker_always_fails(t) == NoWorker

\* get_worker() for thread t: a worker, or NoWorker for ValueError.
get_worker(t) == worker_of[t]

\* What _get_worker_cache's tests found (lines 48, 51, 53), before any.
NoTests == [nostore |-> FALSE, miss |-> FALSE]

NoCall == [op |-> "none", name |-> None, pc |-> "none", exc |-> "none",
           tests |-> NoTests]

\* No `with _WORKER_CACHE_LOCK` block was left by the last step.
NoneLeft == [thread |-> "none", op |-> "none", how |-> "none"]

\* Mutant: the lock excludes nobody.
CanAcquire_no_exclusion(t) == TRUE

\* Mutant: threading.Lock in place of threading.RLock: not reentrant.
CanAcquire_not_reentrant(t) == _WORKER_CACHE_LOCK.owner = NoOwner

\* threading.RLock.acquire(): succeeds at once when the lock is free or is
\* owned by the calling thread; otherwise the caller blocks.
CanAcquire(t) ==
    _WORKER_CACHE_LOCK.owner = NoOwner \/ _WORKER_CACHE_LOCK.owner = t

\* threading.RLock after the owner's acquire().
Acquired(t) == [owner |-> t, count |-> _WORKER_CACHE_LOCK.count + 1]

\* Mutant: the first release() frees the lock, however often it is held.
Released_frees_at_once(t) ==
    IF _WORKER_CACHE_LOCK.owner = t
    THEN [owner |-> NoOwner, count |-> 0]
    ELSE _WORKER_CACHE_LOCK

\* threading.RLock after release() by thread t (the end of a `with` block,
\* however the block is left).
Released(t) ==
    IF _WORKER_CACHE_LOCK.owner = t
    THEN [owner |-> IF _WORKER_CACHE_LOCK.count = 1 THEN NoOwner ELSE t,
          count |-> _WORKER_CACHE_LOCK.count - 1]
    ELSE _WORKER_CACHE_LOCK

\* The Store (dict of named caches) of context c, where it exists.
StoreOf(c) == IF c = NoWorker THEN _WORKER_CACHE ELSE worker_cache[c]

\* hasattr(worker, "worker_cache"); the module global always exists.
StoreExists(c) == c = NoWorker \/ c \in attrs

\* The dicts some Store or some open block still refers to.
Referenced(glob, wcache, stk) ==
    {glob[n] : n \in DOMAIN glob}
    \cup UNION {{wcache[w][n] : n \in DOMAIN wcache[w]} : w \in Workers}
    \cup UNION {{stk[t][i].cache : i \in 1..Len(stk[t])} : t \in Threads}

Live == Referenced(_WORKER_CACHE, worker_cache, stack)

\* The identity of the dict a `{}` creates: one that no live dict has.
NewId ==
    CHOOSE i \in 1..(MaxInst + 1) \ Live :
        \A j \in 1..(MaxInst + 1) \ Live : i <= j

\* Python frees a dict nothing refers to; its contents are gone.
Collect(h, refs) == [i \in InstIds |-> IF i \in refs THEN h[i] ELSE EmptyDict]

\* The tests of _get_worker_cache(name) in context c: `not hasattr(worker,
\* "worker_cache")` (line 51) and `name not in` the Store (lines 48, 53; a
\* Store line 52 has just created holds no name).
Tests(c, name) ==
    [nostore |-> ~ StoreExists(c),
     miss    |-> ~ (StoreExists(c) /\ name \in DOMAIN StoreOf(c))]

\* Mutant: a missing name is bound to a dict the Store already holds (one
\* shared dict instead of a new `{}` per name).
_get_worker_cache_shared_dict(c, name, tests) ==
    LET store0 == IF tests.nostore \/ ~ StoreExists(c) THEN EmptyDict
                  ELSE StoreOf(c)
        fresh == IF DOMAIN store0 = {} THEN NewId
                 ELSE store0[CHOOSE n \in DOMAIN store0 : TRUE]
        store1 == IF tests.miss THEN DictSet(store0, name, fresh) ELSE store0
    IN  [exists |-> TRUE, store |-> store1, created |-> tests.miss,
         exc |-> "ok", ret |-> store1[name]]

\* Mutant: the name is bound to a new `{}` without the test `name not in`.
_get_worker_cache_always_creates(c, name, tests) ==
    LET store0 == IF tests.nostore \/ ~ StoreExists(c) THEN EmptyDict
                  ELSE StoreOf(c)
        store1 == DictSet(store0, name, NewId)
    IN  [exists |-> TRUE, store |-> store1, created |-> TRUE,
         exc |-> "ok", ret |-> store1[name]]

\* _get_worker_cache(name) run in context c after its tests found `tests`:
\* the assignments the tests select (lines 49, 52, 54) and the return
\* (lines 50, 55).  The Store after it, whether a new dict was created, the
\* exception it raises, if any (a Store or a name its tests found is there
\* no more), and the identity of the dict it returns.
_get_worker_cache(c, name, tests) ==
    LET gone   == c # NoWorker /\ ~ tests.nostore /\ c \notin attrs
        store0 == IF c # NoWorker /\ (tests.nostore \/ gone) THEN EmptyDict
                  ELSE StoreOf(c)
        store1 == IF tests.miss /\ ~ gone
                  THEN DictSet(store0, name, NewId) ELSE store0
    IN  IF gone
        THEN [exists |-> FALSE, store |-> store0, created |-> FALSE,
              exc |-> "AttributeError", ret |-> 0]
        ELSE IF name \notin DOMAIN store1
        THEN [exists |-> TRUE, store |-> store1, created |-> FALSE,
              exc |-> "KeyError", ret |-> 0]
        ELSE [exists |-> TRUE, store |-> store1, created |-> tests.miss,
              exc |-> "ok", ret |-> store1[name]]

\* Mutant: the test on `name` inverted (`if not name`): a given name
\* discards the whole Store, an omitted one is deleted as a key.
clean_body_inverted_test(c, name) ==
    LET same == [exists |-> StoreExists(c), store |-> StoreOf(c), exc |-> "ok"]
    IN  IF c = NoWorker
        THEN IF DOMAIN _WORKER_CACHE # {}
             THEN IF ~ Truthy(name)
                  THEN [same EXCEPT !.exc = "KeyError"]
                  ELSE [same EXCEPT !.store = EmptyDict]
             ELSE same
        ELSE IF c \in attrs
             THEN IF ~ Truthy(name)
                  THEN [same EXCEPT !.exc = "KeyError"]
                  ELSE [exists |-> FALSE, store |-> EmptyDict, exc |-> "ok"]
             ELSE same

\* Mutant: the Store is not tested for existence or emptiness before the
\* deletion.
clean_body_no_guard(c, name) ==
    LET same == [exists |-> StoreExists(c), store |-> StoreOf(c), exc |-> "ok"]
    IN  IF Truthy(name)
        THEN IF ~ StoreExists(c) THEN [same EXCEPT !.exc = "AttributeError"]
             ELSE IF name \in DOMAIN StoreOf(c)
             THEN [same EXCEPT !.store = DictDel(StoreOf(c), name)]
             ELSE [same EXCEPT !.exc = "KeyError"]
        ELSE IF c = NoWorker THEN [same EXCEPT !.store = EmptyDict]
             ELSE IF c \in attrs
             THEN [exists |-> FALSE, store |-> EmptyDict, exc |-> "ok"]
             ELSE [same EXCEPT !.exc = "AttributeError"]

\* Mutant: a deletion that fails has already discarded the Store.
clean_body_resets_on_missing(c, name) ==
    LET same == [exists |-> StoreExists(c), store |-> StoreOf(c), exc |-> "ok"]
    IN  IF c = NoWorker
        THEN IF DOMAIN _WORKER_CACHE # {}
             THEN IF Truthy(name)
                  THEN IF name \in DOMAIN _WORKER_CACHE
                       THEN [same EXCEPT !.store = DictDel(_WORKER_CACHE, name)]
                       ELSE [same EXCEPT !.store = EmptyDict,
                                         !.exc = "KeyError"]
                  ELSE [same EXCEPT !.store = EmptyDict]
             ELSE same
        ELSE IF c \in attrs
             THEN IF Truthy(name)
                  THEN IF name \in DOMAIN worker_cache[c]
                       THEN [same EXCEPT !.store = DictDel(worker_cache[c], name)]
                       ELSE [same EXCEPT !.store = EmptyDict,
                                         !.exc = "KeyError"]
                  ELSE [exists |-> FALSE, store |-> EmptyDict, exc |-> "ok"]
             ELSE same

\* The body of clean_worker_cache(name) run in context c (lines 64-80): the
\* Store after it (exists, dict) and the exception it raises, if any.
clean_body(c, name) ==
    LET same == [exists |-> StoreExists(c), store |-> StoreOf(c), exc |-> "ok"]
    IN  IF c = NoWorker
        THEN IF DOMAIN _WORKER_CACHE # {}
             THEN IF Truthy(name)
                  THEN IF name \in DOMAIN _WORKER_CACHE
                       THEN [same EXCEPT !.store = DictDel(_WORKER_CACHE, name)]
                       ELSE [same EXCEPT !.exc = "KeyError"]
                  ELSE [same EXCEPT !.store = EmptyDict]
             ELSE same
        ELSE IF c \in attrs
             THEN IF Truthy(name)
                  THEN IF name \in DOMAIN worker_cache[c]
                       THEN [same EXCEPT !.store = DictDel(worker_cache[c], name)]
                       ELSE [same EXCEPT !.exc = "KeyError"]
                  ELSE [exists |-> FALSE, store |-> EmptyDict, exc |-> "ok"]
             ELSE same

\* ------------------------------------------------------------------ Init
Init ==
    /\ worker_of \in Placements
    /\ _WORKER_CACHE = EmptyDict
    /\ attrs = {}
    /\ worker_cache = [w \in Workers |-> EmptyDict]
    /\ heap = [i \in InstIds |-> EmptyDict]
    /\ _WORKER_CACHE_LOCK = [owner |-> NoOwner, count |-> 0]
    /\ call = [t \in Threads |-> NoCall]
    /\ stack = [t \in Threads |-> << >>]
    /\ acquired = [c \in Contexts |-> {}]
    /\ left = NoneLeft

\* --------------------------------------------------------------- actions
\* Number of get_worker_cache calls in progress (each may create one dict).
PendingGets == Cardinality({t \in Threads : call[t].op = "get"})

\* A thread calls get_worker_cache(..) and enters the context manager: it
\* now contends for the lock (line 32).
CallGet(t) ==
    /\ call[t] = NoCall
    /\ Len(stack[t]) < MaxDepth
    /\ Cardinality(Live) + PendingGets < MaxInst
    /\ call' = [call EXCEPT ![t] = [NoCall EXCEPT !.op = "get", !.pc = "wait"]]
    /\ UNCHANGED <<worker_of, _WORKER_CACHE, attrs, worker_cache, heap,
                   _WORKER_CACHE_LOCK, stack>>

\* A thread calls clean_worker_cache(..) and contends for the lock (line 63).
CallClean(t) ==
    /\ call[t] = NoCall
    /\ call' = [call EXCEPT ![t] = [NoCall EXCEPT !.op = "clean", !.pc = "wait"]]
    /\ UNCHANGED <<worker_of, _WORKER_CACHE, attrs, worker_cache, heap,
                   _WORKER_CACHE_LOCK, stack>>

\* `with _WORKER_CACHE_LOCK:` is entered (lines 32 and 63).  The call's
\* argument is first read under the lock, so the model draws it here:
\* a name for get_worker_cache, a name or None for clean_worker_cache.
AcquireLock(t, name) ==
    /\ call[t].pc = "wait"
    /\ name \in (IF call[t].op = "get" THEN Names ELSE Args)
    /\ CanAcquire(t)
    /\ _WORKER_CACHE_LOCK' = Acquired(t)
    /\ call' = [call EXCEPT ![t].pc = "locked", ![t].name = name]
    /\ UNCHANGED <<worker_of, _WORKER_CACHE, attrs, worker_cache, heap,
                   stack>>

\* The Stores after context c's Store became `store` (existing or not).
SetStore(c, exists, store) ==
    /\ _WORKER_CACHE' = IF c = NoWorker THEN store ELSE _WORKER_CACHE
    /\ attrs' = IF c = NoWorker THEN attrs
                ELSE IF exists THEN attrs \cup {c} ELSE attrs \ {c}
    /\ worker_cache' = IF c = NoWorker THEN worker_cache
                       ELSE [worker_cache EXCEPT ![c] = store]

\* _get_worker_cache(name), called under the lock (line 33): its tests
\* (lines 42-48, 51, 53).
_get_worker_cache_tests(t) ==
    /\ call[t].op = "get" /\ call[t].pc = "locked"
    /\ call' = [call EXCEPT ![t].pc = "checked",
                            ![t].tests = Tests(get_worker(t), call[t].name)]
    /\ UNCHANGED <<worker_of, _WORKER_CACHE, attrs, worker_cache, heap,
                   _WORKER_CACHE_LOCK, stack>>

\* get_worker_cache(name), under the lock: the rest of
\* `yield _get_worker_cache(name)` (line 33).  The caller's block starts
\* with the yielded dict and the lock stays held; an exception of
\* _get_worker_cache leaves the `with` block (line 32) and goes to the
\* caller.
get_worker_cache(t) ==
    /\ call[t].op = "get" /\ call[t].pc = "checked"
    /\ LET c == get_worker(t)
           name == call[t].name
           r == _get_worker_cache(c, name, call[t].tests)
       IN  /\ SetStore(c, r.exists, r.store)
           /\ stack' = [stack EXCEPT ![t] =
                          IF r.exc = "ok"
                          THEN Append(@, [name |-> name, cache |-> r.ret])
                          ELSE @]
           /\ heap' = Collect(
                 IF r.created THEN [heap EXCEPT ![r.ret] = EmptyDict] ELSE heap,
                 Referenced(
                   IF c = NoWorker THEN r.store ELSE _WORKER_CACHE,
                   [w \in Workers |-> IF w = c THEN r.store ELSE worker_cache[w]],
                   stack'))
           /\ _WORKER_CACHE_LOCK' =
                 IF r.exc = "ok" THEN _WORKER_CACHE_LOCK ELSE Released(t)
    /\ call' = [call EXCEPT ![t] = NoCall]
    /\ UNCHANGED worker_of

\* The caller, inside its block, stores a value in a dict it was yielded
\* (the innermost block's or an enclosing one's).
Write(t, i, k, v) ==
    /\ call[t] = NoCall
    /\ i \in 1..Len(stack[t])
    /\ LET h == stack[t][i].cache
       IN  /\ heap' = [heap EXCEPT ![h] = DictSet(@, k, v)]
           /\ heap' # heap
    /\ UNCHANGED <<worker_of, _WORKER_CACHE, attrs, worker_cache,
                   _WORKER_CACHE_LOCK, call, stack>>

\* The caller's innermost block ends, normally or by an exception raised in
\* it: the generator leaves `with _WORKER_CACHE_LOCK` (line 32).
ExitScope(t, exc) ==
    /\ call[t] = NoCall
    /\ Len(stack[t]) > 0
    /\ stack' = [stack EXCEPT ![t] = SubSeq(@, 1, Len(@) - 1)]
    /\ heap' = Collect(heap, Referenced(_WORKER_CACHE, worker_cache, stack'))
    /\ _WORKER_CACHE_LOCK' = Released(t)
    /\ UNCHANGED <<worker_of, _WORKER_CACHE, attrs, worker_cache, call>>

\* clean_worker_cache(name), under the lock: the statements of lines
\* 64-80, up to the return or to the KeyError of a `del`.
clean_worker_cache(t) ==
    /\ call[t].op = "clean" /\ call[t].pc = "locked"
    /\ LET c == get_worker(t)
           r == clean_body(c, call[t].name)
       IN  /\ SetStore(c, r.exists, r.store)
           /\ call' = [call EXCEPT ![t].pc = "exit", ![t].exc = r.exc]
           /\ heap' = Collect(heap, Referenced(
                 IF c = NoWorker THEN r.store ELSE _WORKER_CACHE,
                 [w \in Workers |-> IF w = c THEN r.store ELSE worker_cache[w]],
                 stack))
    /\ UNCHANGED <<worker_of, _WORKER_CACHE_LOCK, stack>>

\* Mutant: the lock is released by a release() after the statements and
\* not by a `with` block: an exception skips it.
CleanExit_no_release_on_error(t) ==
    /\ call[t].op = "clean" /\ call[t].pc = "exit"
    /\ _WORKER_CACHE_LOCK' =
          IF call[t].exc = "ok" THEN Released(t) ELSE _WORKER_CACHE_LOCK
    /\ call' = [call EXCEPT ![t] = NoCall]
    /\ UNCHANGED <<worker_of, _WORKER_CACHE, attrs, worker_cache, heap, stack>>

\* clean_worker_cache leaves its `with _WORKER_CACHE_LOCK` block (line 63)
\* by the return or with the KeyError, which goes to the caller.
CleanExit(t) ==
    /\ call[t].op = "clean" /\ call[t].pc = "exit"
    /\ _WORKER_CACHE_LOCK' = Released(t)
    /\ call' = [call EXCEPT ![t] = NoCall]
    /\ UNCHANGED <<worker_of, _WORKER_CACHE, attrs, worker_cache, heap, stack>>

\* The step is thread t's `yield _get_worker_cache(name)`, after the tests.
GetStep(t) ==
    call[t].op = "get" /\ call[t].pc = "checked" /\ call'[t].pc # "checked"

\* The step is the body of thread t's clean_worker_cache(name).
CleanStep(t) ==
    call[t].op = "clean" /\ call[t].pc = "locked" /\ call'[t].pc # "locked"

\* The history variables are not kept by the program.
NoHist == UNCHANGED <<acquired, left>>

\* The program.
Next ==
    \/ \E t \in Threads : CallGet(t) /\ NoHist
    \/ \E t \in Threads : CallClean(t) /\ NoHist
    \/ \E t \in Threads, name \in Args : AcquireLock(t, name) /\ NoHist
    \/ \E t \in Threads : _get_worker_cache_tests(t) /\ NoHist
    \/ \E t \in Threads : get_worker_cache(t) /\ NoHist
    \/ \E t \in Threads, i \in 1..MaxDepth, k \in Keys, v \in Vals :
         Write(t, i, k, v) /\ NoHist
    \/ \E t \in Threads, exc \in {"ok", "raise"} : ExitScope(t, exc) /\ NoHist
    \/ \E t \in Threads : clean_worker_cache(t) /\ NoHist
    \/ \E t \in Threads : CleanExit(t) /\ NoHist

Spec == Init /\ [][Next]_vars

\* The history after a step: the thread whose call body ran in the step
\* acquired or released a name.
HistoryAfter ==
    [c \in Contexts |->
       LET ran == {t \in Threads : /\ get_worker(t) = c
                                   /\ GetStep(t) \/ CleanStep(t)}
       IN  IF ran = {} THEN acquired[c]
           ELSE LET t == CHOOSE x \in ran : TRUE
                    name == call[t].name
                IN  IF call[t].op = "get" THEN acquired[c] \cup {name}
                    ELSE IF name = None THEN {}
                    ELSE acquired[c] \ {name}]

Hist == acquired' = HistoryAfter /\ UNCHANGED left

\* The program with the history of acquired names kept.
NextHist ==
    \/ \E t \in Threads : CallGet(t) /\ Hist
    \/ \E t \in Threads : CallClean(t) /\ Hist
    \/ \E t \in Threads, name \in Args : AcquireLock(t, name) /\ Hist
    \/ \E t \in Threads : _get_worker_cache_tests(t) /\ Hist
    \/ \E t \in Threads : get_worker_cache(t) /\ Hist
    \/ \E t \in Threads, i \in 1..MaxDepth, k \in Keys, v \in Vals :
         Write(t, i, k, v) /\ Hist
    \/ \E t \in Threads, exc \in {"ok", "raise"} : ExitScope(t, exc) /\ Hist
    \/ \E t \in Threads : clean_worker_cache(t) /\ Hist
    \/ \E t \in Threads : CleanExit(t) /\ Hist

SpecHist == Init /\ [][NextHist]_vars

\* The step left no `with _WORKER_CACHE_LOCK` block.
Stays == left' = NoneLeft /\ UNCHANGED acquired

\* The step is thread t leaving the `with _WORKER_CACHE_LOCK` block of
\* function op: by return ("ok"), by an exception of the caller's block
\* ("raise") or by an exception of the function.
Leaves(t, op, how) ==
    left' = [thread |-> t, op |-> op, how |-> how] /\ UNCHANGED acquired

\* How get_worker_cache(name) ends for thread t: it yields, or it raises.
Yields(t) ==
    LET exc == _get_worker_cache(get_worker(t), call[t].name, call[t].tests).exc
    IN  IF exc = "ok" THEN Stays ELSE Leaves(t, "get_worker_cache", exc)

\* The program with the last exit from a `with _WORKER_CACHE_LOCK` block
\* kept.
NextExit ==
    \/ \E t \in Threads : CallGet(t) /\ Stays
    \/ \E t \in Threads : CallClean(t) /\ Stays
    \/ \E t \in Threads, name \in Args : AcquireLock(t, name) /\ Stays
    \/ \E t \in Threads : _get_worker_cache_tests(t) /\ Stays
    \/ \E t \in Threads : get_worker_cache(t) /\ Yields(t)
    \/ \E t \in Threads, i \in 1..MaxDepth, k \in Keys, v \in Vals :
         Write(t, i, k, v) /\ Stays
    \/ \E t \in Threads, exc \in {"ok", "raise"} :
         ExitScope(t, exc) /\ Leaves(t, "get_worker_cache", exc)
    \/ \E t \in Threads : clean_worker_cache(t) /\ Stays
    \/ \E t \in Threads :
         CleanExit(t) /\ Leaves(t, "clean_worker_cache", call[t].exc)

SpecExit == Init /\ [][NextExit]_vars

\* A thread that can run its next statement does run it: the tests and the
\* assignments of _get_worker_cache, the body of clean_worker_cache and
\* its return take bounded time.
Runs(t) ==
    WF_vars((\/ _get_worker_cache_tests(t) \/ get_worker_cache(t)
             \/ clean_worker_cache(t) \/ CleanExit(t)) /\ NoHist)

\* Fair lock acquisition: a thread that waits for the lock gets it, if the
\* lock is free again and again.
FairLock(t) == SF_vars(\E name \in Args : AcquireLock(t, name) /\ NoHist)

\* Every block of a caller (at every nesting depth) terminates, normally
\* or by an exception.
BlocksEnd(t) ==
    \A d \in 1..MaxDepth :
        SF_vars(\E exc \in {"ok", "raise"} :
                   ExitScope(t, exc) /\ Len(stack[t]) = d /\ NoHist)

\* The program with threads that run, a fair lock and callers' blocks that
\* terminate.
SpecFair ==
    /\ Init /\ [][Next]_vars
    /\ \A t \in Threads : Runs(t) /\ FairLock(t) /\ BlocksEnd(t)

\* ============================================================ properties
\* Vocabulary of the properties.

\* The step is a caller's write into the dict h.
WriteStep(h) ==
    \E t \in Threads : \E i \in 1..Len(stack[t]) :
        /\ stack[t][i].cache = h
        /\ call[t] = NoCall /\ call'[t] = NoCall /\ stack'[t] = stack[t]
        /\ heap'[h] # heap[h]

\* The dict thread t holds from its innermost block.
TopCache(t) == stack[t][Len(stack[t])].cache

\* Context c's Store holds a named cache under n.
Present(c, n) == StoreExists(c) /\ n \in DOMAIN StoreOf(c)

\* The dicts registered in context c's Store.
Registered(c) ==
    IF StoreExists(c) THEN {StoreOf(c)[n] : n \in DOMAIN StoreOf(c)} ELSE {}

\* What a get_worker_cache(n) of context c would be yielded in this state.
NextYield(c, n) == _get_worker_cache(c, n, Tests(c, n))

\* A get_worker_cache(name) that creates the dict it yields yields it empty.
CreatedIsEmpty ==
    \A t \in Threads :
        (GetStep(t) /\ NextYield(get_worker(t), call[t].name).created)
            => heap'[TopCache(t)'] = EmptyDict

\* C2 (namespace isolation): in every Store, two distinct names never hold
\* the same dict, and a step that changes the contents of the dict under
\* one name by a caller's write leaves the contents of the dict under every
\* other name as they were.
C2_NamespaceIsolation ==
    [][\A c \in Contexts : \A n1 \in Names : \A n2 \in Names \ {n1} :
         /\ (Present(c, n1) /\ Present(c, n2))'
              => (StoreOf(c)[n1] # StoreOf(c)[n2])'
         /\ (/\ Present(c, n1) /\ Present(c, n2)
             /\ WriteStep(StoreOf(c)[n1]))
              => heap'[StoreOf(c)[n2]] = heap[StoreOf(c)[n2]]]_vars

\* Two names of one Store are present, one written and the other empty.
C2_Witness ==
    \E c \in Contexts :
        /\ Present(c, "a") /\ Present(c, "b")
        /\ heap[StoreOf(c)["a"]] # EmptyDict
        /\ heap[StoreOf(c)["b"]] = EmptyDict

\* C3 (context separation): the dict a thread is yielded is registered in
\* no Store but that of the thread's own context, whose Store is the only
\* one the call changes; the Stores of two contexts never share a dict; and
\* a write into a dict of one context's Store leaves the contents of every
\* dict of the other Stores as they were.
C3_ContextSeparation ==
    [][/\ \A t \in Threads : \A c2 \in Contexts \ {worker_of[t]} :
            GetStep(t) =>
              /\ TopCache(t)' \notin Registered(c2)'
              /\ Registered(c2)' = Registered(c2)
       /\ \A c1 \in Contexts : \A c2 \in Contexts \ {c1} :
            /\ (Registered(c1) \cap Registered(c2))' = {}
            /\ \A h1 \in Registered(c1) : \A h2 \in Registered(c2) :
                 heap'[h1] # heap[h1] => heap'[h2] = heap[h2]]_vars

\* The same name is present in the Stores of two contexts (two workers, or
\* a worker and the fallback), written in one and empty in the other.
C3_Witness ==
    \E c1 \in Contexts : \E c2 \in Workers \ {c1} : \E n \in Names :
        /\ Present(c1, n) /\ Present(c2, n)
        /\ heap[StoreOf(c1)[n]] # EmptyDict
        /\ heap[StoreOf(c2)[n]] = EmptyDict

\* C4 (whole-store reset): after the body of clean_worker_cache() (no name)
\* in a context, no dict is registered in that context's Store, the
\* fallback Store exists again and is empty, and a get_worker_cache(n)
\* that follows is yielded, for every name n, a newly created empty dict.
C4_WholeStoreReset ==
    [][/\ \A t \in Threads :
            (CleanStep(t) /\ call[t].name = None) =>
               /\ call'[t].exc = "ok"
               /\ Registered(get_worker(t))' = {}
               /\ get_worker(t) = NoWorker => _WORKER_CACHE' = EmptyDict
               /\ \A n \in Names : NextYield(get_worker(t), n)'.created
       /\ CreatedIsEmpty]_vars

\* The body of clean_worker_cache() has run in a block of the calling
\* thread whose dict had been written: that dict is registered no more.
C4_Witness ==
    \E t \in Threads :
        /\ call[t].op = "clean" /\ call[t].pc = "exit" /\ call[t].name = None
        /\ Len(stack[t]) > 0
        /\ heap[TopCache(t)] # EmptyDict
        /\ Registered(get_worker(t)) = {}

\* C5 (targeted deletion): when a and b are distinct non-empty names, both
\* present in the caller's Store, the body of clean_worker_cache(a) raises
\* nothing and removes the entry a and nothing else: a get_worker_cache(a)
\* that follows is yielded a newly created empty dict, a get_worker_cache(b)
\* the dict b had, with its contents.
C5_TargetedDeletion ==
    [][/\ \A t \in Threads : \A a \in Names : \A b \in Names \ {a} :
            (/\ CleanStep(t) /\ call[t].name = a
             /\ Present(get_worker(t), a) /\ Present(get_worker(t), b)) =>
               LET c == get_worker(t)
               IN  /\ call'[t].exc = "ok"
                   /\ StoreExists(c)'
                   /\ StoreOf(c)' = DictDel(StoreOf(c), a)
                   /\ NextYield(c, a)'.created
                   /\ ~ NextYield(c, b)'.created
                   /\ NextYield(c, b)'.ret = StoreOf(c)[b]
                   /\ heap'[StoreOf(c)[b]] = heap[StoreOf(c)[b]]
       /\ CreatedIsEmpty]_vars

\* clean_worker_cache(..) has run inside a block on name a whose dict is no
\* longer registered, while b is still registered with what was written.
C5_Witness ==
    \E t \in Threads : \E a \in Names : \E b \in Names \ {a} :
        /\ call[t].op = "clean" /\ call[t].pc = "exit" /\ call[t].name = a
        /\ call[t].exc = "ok"
        /\ Len(stack[t]) > 0 /\ stack[t][1].name = a
        /\ ~ Present(get_worker(t), a)
        /\ Present(get_worker(t), b)
        /\ heap[StoreOf(get_worker(t))[b]] # EmptyDict

\* C6 (missing-key deletion failure): whenever the caller's Store exists,
\* is not empty and holds nothing under x, the body of
\* clean_worker_cache(x) raises KeyError, whatever string x is.
C6_MissingKeyFails ==
    [][\A t \in Threads :
         (/\ CleanStep(t) /\ call[t].name # None
          /\ StoreExists(get_worker(t))
          /\ DOMAIN StoreOf(get_worker(t)) # {}
          /\ call[t].name \notin DOMAIN StoreOf(get_worker(t)))
            => call'[t].exc = "KeyError"]_vars

\* C6 for the names that are not the empty string.
C6_NonEmptyNameFails ==
    [][\A t \in Threads :
         (/\ CleanStep(t) /\ call[t].name \in Names
          /\ StoreExists(get_worker(t))
          /\ DOMAIN StoreOf(get_worker(t)) # {}
          /\ call[t].name \notin DOMAIN StoreOf(get_worker(t)))
            => /\ call'[t].exc = "KeyError"
               /\ UNCHANGED <<_WORKER_CACHE, attrs, worker_cache, heap>>]_vars

\* Thread t is inside a `with get_worker_cache` block or inside the locked
\* part of a call.
Inside(t) ==
    Len(stack[t]) > 0 \/ call[t].pc \in {"locked", "checked", "exit"}

\* The step creates a Store, or creates or deletes a named cache.
StructureChanged ==
    \/ _WORKER_CACHE' # _WORKER_CACHE
    \/ attrs' # attrs
    \/ worker_cache' # worker_cache

\* C7 (mutual exclusion): a thread inside a block or inside
\* clean_worker_cache owns the lock and no other thread is inside one; and
\* while a thread is inside its block, a step that creates a Store or
\* creates or deletes a named cache, in any Store, is a step of that thread.
C7_MutualExclusion ==
    [][/\ \A t \in Threads :
            Inside(t)' => /\ _WORKER_CACHE_LOCK'.owner = t
                          /\ \A u \in Threads \ {t} : ~ Inside(u)'
       /\ \A t \in Threads :
            (Len(stack[t]) > 0 /\ StructureChanged) =>
               /\ call'[t] # call[t]
               /\ \A u \in Threads \ {t} :
                    call'[u] = call[u] /\ stack'[u] = stack[u]]_vars

\* A thread is inside clean_worker_cache, called in its block, while the
\* other thread waits for the lock.
C7_Witness ==
    \E t \in Threads : \E u \in Threads \ {t} :
        /\ Len(stack[t]) > 0
        /\ call[t].op = "clean" /\ call[t].pc = "exit"
        /\ call[u].pc = "wait"

\* C8 (reentrancy): a thread that waits for the lock while it owns it (a
\* nested get_worker_cache or clean_worker_cache) is never blocked: it can
\* take the lock again at once.
C8_Reentrancy ==
    \A t \in Threads :
        (call[t].pc = "wait" /\ _WORKER_CACHE_LOCK.owner = t)
            => ENABLED (\E name \in Args : AcquireLock(t, name))

\* A thread is in clean_worker_cache called inside a block nested in a
\* block: it holds the lock three times.
C8_Witness ==
    \E t \in Threads :
        /\ Len(stack[t]) >= 2
        /\ call[t].op = "clean" /\ call[t].pc = "exit"
        /\ _WORKER_CACHE_LOCK = [owner |-> t, count |-> 3]

\* The Store clean_worker_cache resolves to in context c is absent: the
\* worker has no attribute worker_cache, or the module global is empty.
StoreAbsent(c) == IF c = NoWorker THEN _WORKER_CACHE = EmptyDict ELSE c \notin attrs

\* C9 (release never creates): when the resolved Store is absent, the body
\* of clean_worker_cache, with a name, with "" or without a name, raises
\* nothing and leaves every Store and every dict as it was.
C9_ReleaseNeverCreates ==
    [][\A t \in Threads :
         (CleanStep(t) /\ StoreAbsent(get_worker(t))) =>
            /\ call'[t].exc = "ok"
            /\ UNCHANGED <<_WORKER_CACHE, attrs, worker_cache, heap>>]_vars

\* The body of clean_worker_cache(name) has run, with a name, for a worker
\* that has no attribute worker_cache (a named deletion never removes the
\* attribute, so there was none before), while another Store holds a dict.
C9_Witness ==
    \E t \in Threads :
        /\ call[t].op = "clean" /\ call[t].pc = "exit" /\ call[t].exc = "ok"
        /\ call[t].name \in Names
        /\ get_worker(t) \in Workers \ attrs
        /\ \E c \in Contexts \ {get_worker(t)} : Registered(c) # {}

\* The step is the body of a clean_worker_cache(n) or clean_worker_cache()
\* of a thread of context c.
ReleaseOf(c, n) ==
    \E t \in Threads :
        get_worker(t) = c /\ CleanStep(t) /\ call[t].name \in {n, None}

\* C10 (no implicit eviction): a named cache present in a Store stays
\* present, as the same dict, across every step that is not the body of
\* clean_worker_cache(that name) or clean_worker_cache() of a thread of
\* that Store's context, and only a caller's write changes its contents.
C10_NoImplicitEviction ==
    [][\A c \in Contexts : \A n \in Names :
         (Present(c, n) /\ ~ ReleaseOf(c, n)) =>
            /\ Present(c, n)'
            /\ StoreOf(c)'[n] = StoreOf(c)[n]
            /\ \/ heap'[StoreOf(c)[n]] = heap[StoreOf(c)[n]]
               \/ WriteStep(StoreOf(c)[n])]_vars

\* C10 with clean_worker_cache("") counted among the whole-Store releases.
C10_ExceptEmptyString ==
    [][\A c \in Contexts : \A n \in Names :
         (Present(c, n) /\ ~ ReleaseOf(c, n) /\ ~ ReleaseOf(c, "")) =>
            /\ Present(c, n)'
            /\ StoreOf(c)'[n] = StoreOf(c)[n]
            /\ \/ heap'[StoreOf(c)[n]] = heap[StoreOf(c)[n]]
               \/ WriteStep(StoreOf(c)[n])]_vars

\* C1 (identity stability), under SpecHist: a get_worker_cache(n) of a
\* context that has acquired n before and has since called neither
\* clean_worker_cache(n) nor clean_worker_cache() is yielded the dict
\* registered under n, which is the dict the earlier call was yielded: every
\* get_worker_cache(n) is yielded the dict it leaves registered under n,
\* that dict is not replaced while the history holds n, only a caller's
\* write changes its contents, and the later call changes no Store and no
\* contents.
C1_IdentityStability ==
    [][/\ \A t \in Threads : \A c \in Contexts : \A n \in Names :
            (GetStep(t) /\ get_worker(t) = c /\ call[t].name = n) =>
               /\ Present(c, n)' /\ TopCache(t)' = StoreOf(c)'[n]
               /\ n \in acquired[c] =>
                    /\ Present(c, n)
                    /\ TopCache(t)' = StoreOf(c)[n]
                    /\ StoreOf(c)' = StoreOf(c)
                    /\ heap' = heap
       /\ \A c \in Contexts : \A n \in Names :
            (n \in acquired[c] /\ Present(c, n) /\ Present(c, n)') =>
               /\ StoreOf(c)'[n] = StoreOf(c)[n]
               /\ \/ heap'[StoreOf(c)[n]] = heap[StoreOf(c)[n]]
                  \/ WriteStep(StoreOf(c)[n])]_vars

\* C1 but for clean_worker_cache(""): as long as every name of the history
\* is present in its Store the steps are those C1 asks for, and a name of
\* the history is missing from its Store only by a clean_worker_cache("").
C1_ExceptEmptyString ==
    [][(\A c \in Contexts : \A n \in acquired[c] : Present(c, n)) =>
        /\ \A t \in Threads : \A c \in Contexts : \A n \in Names :
             (GetStep(t) /\ get_worker(t) = c /\ call[t].name = n) =>
                /\ Present(c, n)' /\ TopCache(t)' = StoreOf(c)'[n]
                /\ n \in acquired[c] =>
                     /\ TopCache(t)' = StoreOf(c)[n]
                     /\ StoreOf(c)' = StoreOf(c)
                     /\ heap' = heap
        /\ \A c \in Contexts : \A n \in Names :
             (n \in acquired[c] /\ Present(c, n)') =>
                /\ StoreOf(c)'[n] = StoreOf(c)[n]
                /\ \/ heap'[StoreOf(c)[n]] = heap[StoreOf(c)[n]]
                   \/ WriteStep(StoreOf(c)[n])
        /\ \A c \in Contexts : \A n \in acquired[c]' :
             Present(c, n)' \/ ReleaseOf(c, "")]_vars

\* C11 (error completeness): get_worker_cache(name) always yields a dict
\* and raises nothing, for a thread without a worker it yields a dict of the
\* module global and touches no worker; the body of clean_worker_cache
\* raises nothing or KeyError, KeyError only when it was passed a name that
\* is not in the caller's Store, and nothing when no name was passed.
C11_ErrorCompleteness ==
    [][\A t \in Threads :
         /\ GetStep(t) =>
              /\ call'[t] = NoCall
              /\ Len(stack'[t]) = Len(stack[t]) + 1
              /\ stack'[t][Len(stack'[t])].name = call[t].name
              /\ get_worker(t) = NoWorker =>
                   /\ TopCache(t)' = _WORKER_CACHE'[call[t].name]
                   /\ attrs' = attrs /\ worker_cache' = worker_cache
         /\ CleanStep(t) =>
              /\ call'[t].exc \in {"ok", "KeyError"}
              /\ call'[t].exc = "KeyError" =>
                   /\ call[t].name # None
                   /\ ~ Present(get_worker(t), call[t].name)
              /\ call[t].name = None => call'[t].exc = "ok"]_vars

\* A thread without a worker, inside its block on a dict of the module
\* global, has called clean_worker_cache(name) and got KeyError.
C11_Witness ==
    \E t \in Threads :
        /\ get_worker(t) = NoWorker
        /\ Len(stack[t]) > 0
        /\ TopCache(t) \in Registered(NoWorker)
        /\ call[t].op = "clean" /\ call[t].pc = "exit"
        /\ call[t].exc = "KeyError"

\* What the callers of context c can see of its Store: the names and, under
\* each, the contents of the dict.  A worker without the attribute
\* worker_cache shows what an empty Store shows.
View(c) ==
    IF StoreExists(c)
    THEN [n \in DOMAIN StoreOf(c) |-> heap[StoreOf(c)[n]]]
    ELSE EmptyDict

\* View(c) after the body of clean_worker_cache(name) in context c.
ViewAfterClean(c, name) ==
    LET r == clean_body(c, name)
    IN  IF r.exists THEN [n \in DOMAIN r.store |-> heap[r.store[n]]]
        ELSE EmptyDict

\* The contents of the dict a get_worker_cache(n) of context c is yielded.
YieldedContents(c, n) ==
    IF NextYield(c, n).created THEN EmptyDict ELSE heap[NextYield(c, n).ret]

\* The next call has the same outcome in context c as in context d: the
\* same exception or none and the same view after clean_worker_cache(name),
\* for every argument, and the same contents yielded by
\* get_worker_cache(n), for every name.
SameOutcomes(c, d) ==
    /\ \A name \in Args :
         /\ clean_body(c, name).exc = clean_body(d, name).exc
         /\ ViewAfterClean(c, name) = ViewAfterClean(d, name)
    /\ \A n \in Names :
         /\ NextYield(c, n).exc = NextYield(d, n).exc
         /\ YieldedContents(c, n) = YieldedContents(d, n)

\* C12 (fallback path and worker path equivalent): whenever the module
\* global and a worker's Store show their callers the same (as they do
\* after the same calls, from the start), every next call has the same
\* outcome on both: the same sequence of calls gives the same results at
\* every step.
C12_PathsEquivalent ==
    \A w \in Workers : View(NoWorker) = View(w) => SameOutcomes(NoWorker, w)

\* C12 but for clean_worker_cache(name) with a non-empty name on an empty
\* Store: the two paths differ in nothing else.
C12_ExceptEmptyStore ==
    \A w \in Workers :
        (View(NoWorker) = View(w) /\ ~ (w \in attrs /\ View(w) = EmptyDict))
            => SameOutcomes(NoWorker, w)

\* C13 (a named release removes only the named element): the body of
\* clean_worker_cache(name) with a name passed, the empty string included,
\* leaves every entry of the caller's Store under another name present, as
\* the same dict with the same contents.
C13_NamedReleaseRemovesOnlyNamed ==
    [][\A t \in Threads :
         (CleanStep(t) /\ call[t].name # None) =>
            \A n \in Names \ {call[t].name} :
               Present(get_worker(t), n) =>
                  /\ Present(get_worker(t), n)'
                  /\ StoreOf(get_worker(t))'[n] = StoreOf(get_worker(t))[n]
                  /\ heap'[StoreOf(get_worker(t))[n]]
                       = heap[StoreOf(get_worker(t))[n]]]_vars

\* C13 for the names that are not the empty string.
C13_NonEmptyName ==
    [][\A t \in Threads :
         (CleanStep(t) /\ call[t].name \in Names) =>
            \A n \in Names \ {call[t].name} :
               Present(get_worker(t), n) =>
                  /\ Present(get_worker(t), n)'
                  /\ StoreOf(get_worker(t))'[n] = StoreOf(get_worker(t))[n]
                  /\ heap'[StoreOf(get_worker(t))[n]]
                       = heap[StoreOf(get_worker(t))[n]]]_vars

\* C14 (the lock is released on every exit path), under SpecExit: a thread
\* that is outside every block and every call does not hold the lock; the
\* lock has an owner exactly while it is held; and right after a thread has
\* left its outermost `with` block, by return, by an exception raised in
\* the caller's block or by the KeyError of clean_worker_cache, the lock
\* is free.
C14_LockReleasedOnExit ==
    /\ \A t \in Threads : ~ Inside(t) => _WORKER_CACHE_LOCK.owner # t
    /\ _WORKER_CACHE_LOCK.owner = NoOwner <=> _WORKER_CACHE_LOCK.count = 0
    /\ \A t \in Threads :
         (left.thread = t /\ Len(stack[t]) = 0) =>
            _WORKER_CACHE_LOCK = [owner |-> NoOwner, count |-> 0]

\* A thread has just left clean_worker_cache, called outside every block,
\* with KeyError, and the other thread is waiting for the lock.
C14_Witness ==
    \E t \in Threads : \E u \in Threads \ {t} :
        /\ left = [thread |-> t, op |-> "clean_worker_cache", how |-> "KeyError"]
        /\ Len(stack[t]) = 0
        /\ call[u].pc = "wait"

\* A thread has just left its outermost block by an exception raised in it.
C14_RaiseReached ==
    \E t \in Threads :
        /\ left = [thread |-> t, op |-> "get_worker_cache", how |-> "raise"]
        /\ Len(stack[t]) = 0

\* The Stores and the contents of the dicts.
data == <<_WORKER_CACHE, attrs, worker_cache, heap>>

\* C15 (state unchanged on error): a body of clean_worker_cache that raises
\* KeyError leaves every Store, with its names and dicts, and the contents
\* of every dict as they were; and the call then ends with that KeyError,
\* again changing none of them.
C15_StateUnchangedOnError ==
    [][\A t \in Threads :
         /\ (CleanStep(t) /\ call'[t].exc = "KeyError") =>
               UNCHANGED <<data, stack>>
         /\ (call[t].pc = "exit" /\ call[t].exc = "KeyError"
               /\ call'[t] # call[t]) =>
               /\ call'[t] = NoCall
               /\ UNCHANGED <<data, stack>>]_vars

\* clean_worker_cache(name) has raised KeyError in a block whose dict is
\* registered and written, while another context's Store holds a dict too.
C15_Witness ==
    \E t \in Threads :
        /\ call[t].op = "clean" /\ call[t].pc = "exit"
        /\ call[t].exc = "KeyError"
        /\ Len(stack[t]) > 0
        /\ TopCache(t) \in Registered(get_worker(t))
        /\ heap[TopCache(t)] # EmptyDict
        /\ \E c \in Contexts \ {get_worker(t)} : Registered(c) # {}

\* C16 (atomic lazy creation): what the tests of _get_worker_cache found
\* still holds when the assignments run (no other thread's test or
\* insertion comes between); a get_worker_cache(n) for a name the Store
\* holds creates nothing and is yielded the registered dict, a
\* get_worker_cache(n) for a name it does not hold creates exactly one
\* empty dict; and no entry of the Store is ever replaced by the call.
C16_AtomicLazyCreation ==
    [][\A t \in Threads :
         /\ (call[t].pc = "checked" =>
               call[t].tests = Tests(get_worker(t), call[t].name))'
         /\ \A c \in Contexts : \A n \in Names :
              (GetStep(t) /\ get_worker(t) = c /\ call[t].name = n) =>
                 /\ Present(c, n) =>
                      /\ UNCHANGED data
                      /\ TopCache(t)' = StoreOf(c)[n]
                 /\ ~ Present(c, n) =>
                      /\ TopCache(t)' \notin Live
                      /\ heap'[TopCache(t)'] = EmptyDict
                      /\ Registered(c)' = Registered(c) \cup {TopCache(t)'}
                      /\ StoreOf(c)'[n] = TopCache(t)'
                 /\ StoreExists(c) =>
                      \A m \in DOMAIN StoreOf(c) :
                          Present(c, m)' /\ StoreOf(c)'[m] = StoreOf(c)[m]]_vars

\* Two threads of one context are in get_worker_cache at once: one has found
\* its name missing and is about to create the dict, the other waits for
\* the lock.
C16_Witness ==
    \E t \in Threads : \E u \in Threads \ {t} :
        /\ get_worker(t) = get_worker(u)
        /\ call[t].op = "get" /\ call[t].pc = "checked" /\ call[t].tests.miss
        /\ call[u].op = "get" /\ call[u].pc = "wait"

\* Thread u has a next step of its own other than starting a new call.
CanProceed(u) ==
    \/ ENABLED (\E name \in Args : AcquireLock(u, name))
    \/ ENABLED _get_worker_cache_tests(u)
    \/ ENABLED get_worker_cache(u)
    \/ ENABLED clean_worker_cache(u)
    \/ ENABLED CleanExit(u)
    \/ ENABLED (\E exc \in {"ok", "raise"} : ExitScope(u, exc))

\* Thread t waits for the lock and cannot have it now.
Blocked(t) == call[t].pc = "wait" /\ ~ CanAcquire(t)

\* C17 (progress), under SpecFair: whenever a thread is blocked on the lock
\* another thread holds it and that thread can proceed (no deadlock); every
\* call of get_worker_cache or clean_worker_cache that has started
\* completes (it yields, returns or raises); and a held lock becomes free.
C17_Progress ==
    /\ [](\A t \in Threads :
            Blocked(t) =>
               \E u \in Threads \ {t} :
                  _WORKER_CACHE_LOCK.owner = u /\ CanProceed(u))
    /\ \A t \in Threads : (call[t] # NoCall) ~> (call[t] = NoCall)
    /\ (_WORKER_CACHE_LOCK.owner # NoOwner)
         ~> (_WORKER_CACHE_LOCK.owner = NoOwner)

\* A thread is blocked on the lock while its holder, inside a block, is in
\* a nested call that takes the lock once more.
C17_Witness ==
    \E t \in Threads : \E u \in Threads \ {t} :
        /\ Blocked(t)
        /\ _WORKER_CACHE_LOCK.owner = u
        /\ Len(stack[u]) > 0
        /\ call[u].pc = "wait"

\* The `with _WORKER_CACHE_LOCK` blocks thread t is inside: its open
\* get_worker_cache blocks and the call it is in, once that has the lock.
Holds(t) ==
    Len(stack[t]) + (IF call[t].pc \in {"locked", "checked", "exit"} THEN 1 ELSE 0)

\* C18 (reentrant hold count), under SpecExit: the lock's count is the
\* number of blocks and calls its owner is inside, and is zero for every
\* other thread; no thread but the owner can take the lock while the count
\* is not zero, in particular right after the owner has left a nested
\* block or returned from a nested clean_worker_cache.
C18_ReentrantHoldCount ==
    /\ \A t \in Threads :
         Holds(t) = IF _WORKER_CACHE_LOCK.owner = t
                    THEN _WORKER_CACHE_LOCK.count ELSE 0
    /\ _WORKER_CACHE_LOCK.owner = NoOwner => _WORKER_CACHE_LOCK.count = 0
    /\ \A t \in Threads : \A u \in Threads \ {t} :
         Holds(t) > 0 =>
            /\ _WORKER_CACHE_LOCK.owner = t
            /\ ~ ENABLED (\E name \in Args : AcquireLock(u, name))
    /\ \A t \in Threads :
         (left.thread = t /\ Len(stack[t]) > 0) =>
            _WORKER_CACHE_LOCK = [owner |-> t, count |-> Len(stack[t])]

\* A thread has just left a block nested in another and still holds the
\* lock, once, while the other thread waits for it.
C18_Witness ==
    \E t \in Threads : \E u \in Threads \ {t} :
        /\ left = [thread |-> t, op |-> "get_worker_cache", how |-> "ok"]
        /\ Len(stack[t]) = 1
        /\ _WORKER_CACHE_LOCK = [owner |-> t, count |-> 1]
        /\ call[u].pc = "wait"

\* A thread has just returned from a clean_worker_cache called in its block
\* and still holds the lock.
C18_NestedReleaseReached ==
    \E t \in Threads :
        /\ left.thread = t /\ left.op = "clean_worker_cache"
        /\ Len(stack[t]) > 0

\* The dict h that a block of context c holds for name n is the dict
\* registered under n in c's Store: the next get_worker_cache(n) of the
\* context is yielded h, with what was written into it.
HandleRegistered(c, n, h) ==
    /\ Present(c, n) /\ StoreOf(c)[n] = h
    /\ LET r == NextYield(c, n) IN ~ r.created /\ r.ret = h

\* C19 as claimed (the handle stays registered during its block): the dict
\* of every open block, the innermost and the enclosing ones, is the dict
\* registered under the block's name in the thread's Store, whatever calls
\* the thread has made inside the block.
C19_HandleStaysRegistered ==
    \A t \in Threads : \A i \in 1..Len(stack[t]) :
        HandleRegistered(get_worker(t), stack[t][i].name, stack[t][i].cache)

\* The step is the body of a clean_worker_cache of thread t itself whose
\* argument is not a non-empty name other than n.
OwnerReleases(t, n) == CleanStep(t) /\ call[t].name \notin Names \ {n}

\* C19 as amended: a get_worker_cache(n) is yielded the dict it leaves
\* registered under n; and the dict of an open block, once registered,
\* stays registered with its contents, changed by callers' writes only,
\* across every step that leaves the block open, of any thread, nested
\* get_worker_cache calls and nested clean_worker_cache(m) calls of the
\* owner for a non-empty name m other than n included; only a nested
\* clean_worker_cache of the owner itself that names n or discards the Store
\* unregisters it.
C19_RegisteredUnlessOwnerReleases ==
    [][\A t \in Threads : \A c \in {get_worker(t)} :
         /\ GetStep(t) =>
              \A n \in {call[t].name} : \A h \in {TopCache(t)'} :
                  HandleRegistered(c, n, h)'
         /\ \A i \in 1..Len(stack[t]) :
              \A n \in {stack[t][i].name} : \A h \in {stack[t][i].cache} :
                  (/\ i <= Len(stack'[t])
                   /\ ~ OwnerReleases(t, n)
                   /\ Present(c, n) /\ StoreOf(c)[n] = h) =>
                     /\ HandleRegistered(c, n, h)'
                     /\ heap'[h] = heap[h] \/ WriteStep(h)]_vars

\* Inside its block on "a", whose dict it has written, a thread has called
\* get_worker_cache("a") again and, in that nested block,
\* clean_worker_cache("b"), which found no "b": both blocks still hold the
\* dict registered under "a".
C19_Witness ==
    \E t \in Threads :
        /\ Len(stack[t]) = 2
        /\ stack[t][1].name = "a" /\ stack[t][2] = stack[t][1]
        /\ heap[stack[t][1].cache] # EmptyDict
        /\ call[t].op = "clean" /\ call[t].pc = "exit"
        /\ call[t].name = "b" /\ call[t].exc = "KeyError"
        /\ HandleRegistered(get_worker(t), "a", stack[t][1].cache)

\* Inside its block on "a", whose dict it has written, a thread has called
\* clean_worker_cache("b") for a registered "b": "a" is still registered.
C19_OtherNameReleased ==
    \E t \in Threads :
        /\ Len(stack[t]) = 1 /\ stack[t][1].name = "a"
        /\ heap[stack[t][1].cache] # EmptyDict
        /\ call[t].op = "clean" /\ call[t].pc = "exit"
        /\ call[t].name = "b" /\ call[t].exc = "ok"
        /\ HandleRegistered(get_worker(t), "a", stack[t][1].cache)

\* Inside its block on "a" a thread has called clean_worker_cache("a"): the
\* dict it holds is registered no more.
C19_NamedReleaseInBlock ==
    \E t \in Threads :
        /\ Len(stack[t]) = 1 /\ stack[t][1].name = "a"
        /\ call[t].op = "clean" /\ call[t].pc = "exit"
        /\ call[t].name = "a" /\ call[t].exc = "ok"
        /\ ~ Present(get_worker(t), "a")

====
